---------------------------- MODULE Spec2Model ----------------------------
(***************************************************************************)
(* Model of Analysis/main.py: class TeamComparator.                        *)
(*                                                                         *)
(* Numbers.  Distances are kept exact: the positions and orientations of   *)
(* the input pools are chosen so that every Euclidean distance between two *)
(* of them is an integer (3-4-5 rectangle, opposite unit headings), so     *)
(* state and trajectory distances are naturals.  epsilon is the linear-    *)
(* interpolation percentile of naturals at q = (1 - delta) * 100 percent   *)
(* and is stored multiplied by PercentScale (100), which is exact.         *)
(*                                                                         *)
(* Optional values (None in Python) are sequences of length 0 or 1.        *)
(* A call's result is a record [outcome, value]; outcome is "ok" or the    *)
(* name of the Python exception that leaves the call.                      *)
(***************************************************************************)
EXTENDS Integers, Sequences, FiniteSets, TLC

\* ----------------------------------------------------------------- bounds
\* most agents in one game state (state-distance specification)
MaxAgents == 2
\* most trajectories in one input file
MaxTrajs == 2

\* ------------------------------------------------------ program constants
\* TeamComparator(delta=0.05), in hundredths
DeltaPct == 5
\* the "* 100" of (1 - self.delta) * 100, and the percent scale of np.percentile
PercentScale == 100
\* dtw(...) is called without step_pattern: the library's default pattern
\* (symmetric2) weights a diagonal step twice
DiagWeight == 2

\* ---------------------------------------------------------------- helpers
Min2(a, b) == IF a <= b THEN a ELSE b

SetMin(S) == CHOOSE x \in S : \A y \in S : x <= y

SetMax(S) == CHOOSE x \in S : \A y \in S : y <= x

Range(s) == {s[k] : k \in 1..Len(s)}

RECURSIVE SeqSum(_)
SeqSum(s) == IF s = <<>> THEN 0 ELSE Head(s) + SeqSum(Tail(s))

\* integer square root of a perfect square
ISqrt(n) == CHOOSE r \in 0..n : r * r = n

Sq(x) == x * x

\* scipy.spatial.distance.euclidean on two 2-vectors
euclidean(u, v) == ISqrt(Sq(u[1] - v[1]) + Sq(u[2] - v[2]))

Ok(v) == [outcome |-> "ok", value |-> v]

Raise(e) == [outcome |-> e, value |-> 0]

\* ------------------------------------------------------------ input pools
None == <<>>

Agent(pos, ori, held) == [position |-> pos, orientation |-> ori, held_object |-> held]

GameState(players) == [players |-> players]

P1 == Agent(<<0, 0>>, <<0, 1>>, None)
P2 == Agent(<<3, 0>>, <<0, -1>>, <<"onion">>)
P3 == Agent(<<3, 4>>, <<0, 1>>, <<"dish">>)
P4 == Agent(<<0, 4>>, <<0, -1>>, <<"onion">>)

AgentPool == {P1, P2, P3, P4}

\* all game states of 1 to MaxAgents agents of the pool
GameStates == {GameState(pl) : pl \in UNION {[1..n -> AgentPool] : n \in 1..MaxAgents}}

\* ------------------------------------------------------- _state_distance
\* itertools.permutations(range(n)): every ordering of S, in lexicographic
\* order (indices are 1-based here)
Prepend(x, sub) == [k \in 1..Len(sub) |-> <<x>> \o sub[k]]

RECURSIVE permutations(_)
RECURSIVE PermsFrom(_, _)
RECURSIVE PermsAt(_, _, _)
PermsAt(S, rest, x) == Prepend(x, permutations(S \ {x})) \o PermsFrom(S, rest \ {x})

PermsFrom(S, rest) == IF rest = {} THEN <<>> ELSE PermsAt(S, rest, SetMin(rest))

permutations(S) == IF S = {} THEN << <<>> >> ELSE PermsFrom(S, S)

\* lines 57-63: the held-object term of one matched pair of agents; a held
\* object is a dict with a 'name', so h1 and h2 are truthy when not None
held_dist(p1, p2) ==
    IF (p1.held_object = None) # (p2.held_object = None) THEN 1
    ELSE IF p1.held_object # None /\ p2.held_object # None
            /\ p1.held_object[1] # p2.held_object[1] THEN 1
    ELSE 0

\* lines 51-65: what one pair (i, j) adds to current_dist
agent_cost(p1, p2) ==
    euclidean(p1.position, p2.position)
    + euclidean(p1.orientation, p2.orientation)
    + held_dist(p1, p2)

\* lines 49-65: current_dist of one permutation; s2[0]['players'][j] raises
\* IndexError when j is past the end of s2's player list
perm_dist(pl1, pl2, perm) ==
    IF \E i \in 1..Len(perm) : perm[i] > Len(pl2)
    THEN Raise("IndexError")
    ELSE Ok(SeqSum([i \in 1..Len(perm) |-> agent_cost(pl1[i], pl2[perm[i]])]))

\* lines 48-68: the loop over the permutations from the k-th on; min_dist is
\* None while it is still float('inf')
RECURSIVE perm_loop(_, _, _, _, _)
RECURSIVE perm_next(_, _, _, _, _, _)
\* a loop that keeps the last permutation's cost instead of the least
perm_next_overwrite(pl1, pl2, perms, k, min_dist, cur) ==
    IF cur.outcome # "ok" THEN cur
    ELSE perm_loop(pl1, pl2, perms, k + 1, <<cur.value>>)

\* lines 67-68, current_dist being cur
perm_next(pl1, pl2, perms, k, min_dist, cur) ==
    IF cur.outcome # "ok" THEN cur
    ELSE IF min_dist = None \/ cur.value < min_dist[1]
    THEN perm_loop(pl1, pl2, perms, k + 1, <<cur.value>>)
    ELSE perm_loop(pl1, pl2, perms, k + 1, min_dist)

perm_loop(pl1, pl2, perms, k, min_dist) ==
    IF k > Len(perms) THEN Ok(min_dist)
    ELSE perm_next(pl1, pl2, perms, k, min_dist, perm_dist(pl1, pl2, perms[k]))

\* line 70: the value of an "ok" result is the returned min_dist; inf marks a
\* return of float('inf')
state_distance_result(r) ==
    IF r.outcome # "ok" THEN [outcome |-> r.outcome, value |-> 0, inf |-> FALSE]
    ELSE IF r.value = None THEN [outcome |-> "ok", value |-> 0, inf |-> TRUE]
    ELSE [outcome |-> "ok", value |-> r.value[1], inf |-> FALSE]

\* lines 41-70.  num_players is the agent count of s1 alone.
state_distance(s1, s2) ==
    state_distance_result(
        perm_loop(s1.players, s2.players, permutations(1..Len(s1.players)), 1, None))

\* --------------------------------------------------- _trajectory_distance
\* the local cost matrix entry the DTW library asks dist_method for
local_cost(t1, t2, i, j) == state_distance(t1[i], t2[j])

\* the accumulated cost of cell (i, j), c being its local cost: cell (1, 1)
\* is its local cost, a horizontal or vertical step adds the local cost
\* once, a diagonal step adds it DiagWeight times
RECURSIVE dtw_cell(_, _, _, _)
RECURSIVE dtw_step(_, _, _, _, _)
dtw_step(t1, t2, i, j, c) ==
    IF i = 1 /\ j = 1 THEN c
    ELSE IF i = 1 THEN dtw_cell(t1, t2, 1, j - 1) + c
    ELSE IF j = 1 THEN dtw_cell(t1, t2, i - 1, 1) + c
    ELSE Min2(dtw_cell(t1, t2, i - 1, j - 1) + DiagWeight * c,
              Min2(dtw_cell(t1, t2, i - 1, j) + c, dtw_cell(t1, t2, i, j - 1) + c))

dtw_cell(t1, t2, i, j) == dtw_step(t1, t2, i, j, local_cost(t1, t2, i, j).value)

\* dtw(t1, t2, dist_method=self._state_distance).distance: the whole local
\* cost matrix is computed first, so an exception of _state_distance on any
\* pair of states leaves the call
dtw(t1, t2) ==
    IF \E i \in 1..Len(t1), j \in 1..Len(t2) : local_cost(t1, t2, i, j).outcome # "ok"
    THEN Raise("IndexError")
    ELSE Ok(dtw_cell(t1, t2, Len(t1), Len(t2)))

\* -------------------------------------------------------- _load_team_data
\* a state record of a file: a dict with 'players', the same inside a
\* one-element list, or anything else
RawState(shape, state) == [shape |-> shape, state |-> state]

Dict(state) == RawState("dict", state)

Singleton(state) == RawState("singleton", state)

Malformed == RawState("malformed", GameState(<<>>))

\* lines 31-35: a state record passes as a dict with 'players', unwrapped
\* from a one-element list first
valid_state(raw) == raw.shape \in {"dict", "singleton"}

\* lines 18-39, on the value of data['ep_observations']
load_team_data(file) ==
    IF \E t \in 1..Len(file) : \E k \in 1..Len(file[t]) : ~valid_state(file[t][k])
    THEN Raise("ValueError")
    ELSE Ok([t \in 1..Len(file) |-> [k \in 1..Len(file[t]) |-> file[t][k].state]])

\* ------------------------------------------------------------ input files
\* two-agent states and a one-agent state
SA == GameState(<<P1, P2>>)
SC == GameState(<<P1, P4>>)
S1 == GameState(<<P3>>)

\* the trajectories the files of the comparator specification are made of
\* (every trajectory has at least one state)
TA == <<Singleton(SA), Dict(SC)>>
TB == <<Dict(SA)>>
TD == <<Dict(SC), Dict(SC)>>
TC == <<Dict(S1)>>

TrajPool == {TA, TB, TD, TC}

BadFile == <<(<<Dict(SA), Malformed>>)>>

Files == UNION {[1..n -> TrajPool] : n \in 0..MaxTrajs} \cup {BadFile}

\* the trajectories of the scenario specification: two agents without held
\* objects, three time steps, agent positions on the x axis near 0 and near
\* 10; xs lists the x coordinates step by step
ScenarioState(x1, x2) ==
    GameState(<<Agent(<<x1, 0>>, <<0, 1>>, None), Agent(<<x2, 0>>, <<0, 1>>, None)>>)

ScenarioTraj(xs) == [k \in 1..3 |-> Dict(ScenarioState(xs[2 * k - 1], xs[2 * k]))]

ScenarioPool ==
    {ScenarioTraj(<<2, 12, 1, 10, 1, 10>>), ScenarioTraj(<<0, 10, 2, 11, 2, 12>>),
     ScenarioTraj(<<1, 10, 1, 10, 1, 10>>), ScenarioTraj(<<2, 11, 2, 10, 1, 11>>),
     ScenarioTraj(<<0, 10, 2, 12, 0, 12>>)}

\* the reference files of four different scenario trajectories
ScenarioFiles ==
    {f \in [1..4 -> ScenarioPool] : \A i, j \in 1..4 : i # j => f[i] # f[j]}

\* ----------------------------------------------------- trajectory distance
\* the trajectories of a pool as _load_team_data hands them on
Loaded(pool) == {[k \in 1..Len(t) |-> t[k].state] : t \in pool}

\* dtw on the pools' trajectories, computed once
RECURSIVE Tabulate(_)
Tabulate(ps) ==
    IF ps = {} THEN <<>>
    ELSE LET p == CHOOSE q \in ps : TRUE
         IN (p :> dtw(p[1], p[2])) @@ Tabulate(ps \ {p})

DistanceTable ==
    Tabulate((Loaded(TrajPool) \X Loaded(TrajPool))
             \cup (Loaded(ScenarioPool) \X Loaded(ScenarioPool)))

\* lines 72-77, for two trajectories of one pool
trajectory_distance(t1, t2) == DistanceTable[<<t1, t2>>]

\* ------------------------------------------------------------- percentile
RECURSIVE Insert(_, _)
Insert(x, s) ==
    IF s = <<>> THEN <<x>>
    ELSE IF x <= Head(s) THEN <<x>> \o s
    ELSE <<Head(s)>> \o Insert(x, Tail(s))

RECURSIVE Sort(_)
Sort(s) == IF s = <<>> THEN <<>> ELSE Insert(Head(s), Sort(Tail(s)))

\* linear interpolation in the sorted values v at the virtual index
\* pos / PercentScale (0-based), times PercentScale
interpolate(v, pos) ==
    IF pos % PercentScale = 0 THEN PercentScale * v[pos \div PercentScale + 1]
    ELSE PercentScale * v[pos \div PercentScale + 1]
         + (pos % PercentScale)
           * (v[pos \div PercentScale + 2] - v[pos \div PercentScale + 1])

\* np.percentile(values, q), times PercentScale: the virtual index is
\* (n - 1) * q / 100
percentile(values, q) == interpolate(Sort(values), (Len(values) - 1) * q)

\* ---------------------------------------------------------- fit_reference
\* lines 84-85: three more references to the first trajectory
pad(trajs) == trajs \o <<trajs[1], trajs[1], trajs[1]>>

\* lines 89-90: the pairs (i, j), i < j, in loop order
RECURSIVE pairs_from(_, _, _)
pairs_from(n, i, j) ==
    IF i > n THEN <<>>
    ELSE IF j > n THEN pairs_from(n, i + 1, i + 2)
    ELSE <<(<<i, j>>)>> \o pairs_from(n, i, j + 1)

pairs(n) == pairs_from(n, 1, 2)

\* lines 89-92: the loop from the k-th pair on; the result holds
\* ref_distances as the loop, or the exception that ends it, leaves it
RECURSIVE pair_loop(_, _, _, _)
RECURSIVE pair_next(_, _, _, _, _)
\* lines 91-92, d being the result of _trajectory_distance
pair_next(trajs, ps, k, dists, d) ==
    IF d.outcome # "ok" THEN [outcome |-> d.outcome, distances |-> dists]
    ELSE pair_loop(trajs, ps, k + 1, Append(dists, d.value))

pair_loop(trajs, ps, k, dists) ==
    IF k > Len(ps) THEN [outcome |-> "ok", distances |-> dists]
    ELSE pair_next(trajs, ps, k, dists,
                   trajectory_distance(trajs[ps[k][1]], trajs[ps[k][2]]))

\* lines 88-92
pairwise(trajs) == pair_loop(trajs, pairs(Len(trajs)), 1, <<>>)

\* line 94
fit_epsilon(distances) == percentile(distances, PercentScale - DeltaPct)

\* ----------------------------------------------------------- compare_team
\* max() where the code takes min()
max_of(d) ==
    IF \E r \in 1..Len(d) : d[r].outcome # "ok" THEN Raise("IndexError")
    ELSE Ok(SetMax({d[r].value : r \in 1..Len(d)}))

\* min() of the distances d to the references: the first exception of
\* _trajectory_distance leaves it
min_of(d) ==
    IF \E r \in 1..Len(d) : d[r].outcome # "ok" THEN Raise("IndexError")
    ELSE Ok(SetMin({d[r].value : r \in 1..Len(d)}))

\* lines 104-107: min() raises ValueError on an empty generator
min_dist_to(test_traj, refs) ==
    IF refs = <<>> THEN Raise("ValueError")
    ELSE min_of([r \in 1..Len(refs) |-> trajectory_distance(test_traj, refs[r])])

\* an alert at the threshold itself: >= where the code has >
alert_flag_geq(min_dist, eps) == IF PercentScale * min_dist >= eps THEN 1 ELSE 0

\* line 109: min_dist > self.epsilon, eps being epsilon times PercentScale
alert_flag(min_dist, eps) == IF PercentScale * min_dist > eps THEN 1 ELSE 0

\* lines 103-109: the loop from the k-th test trajectory on; comparing
\* min_dist with an epsilon of None raises TypeError, after the append
RECURSIVE compare_loop(_, _, _, _, _, _)
RECURSIVE compare_next(_, _, _, _, _, _, _)
\* lines 108-109, m being the result of min()
compare_next(tests, refs, eps, k, dists, alerts, m) ==
    IF m.outcome # "ok"
    THEN [outcome |-> m.outcome, test_distances |-> dists, alerts |-> alerts]
    ELSE IF eps = None
    THEN [outcome |-> "TypeError", test_distances |-> Append(dists, m.value),
          alerts |-> alerts]
    ELSE compare_loop(tests, refs, eps, k + 1, Append(dists, m.value),
                      Append(alerts, alert_flag(m.value, eps[1])))

compare_loop(tests, refs, eps, k, dists, alerts) ==
    IF k > Len(tests)
    THEN [outcome |-> "ok", test_distances |-> dists, alerts |-> alerts]
    ELSE compare_next(tests, refs, eps, k, dists, alerts, min_dist_to(tests[k], refs))

\* -------------------------------------------------------------- variables
VARIABLES
    epsilon,            \* self.epsilon: None or <<epsilon * PercentScale>>
    ref_trajectories,   \* self.ref_trajectories
    ref_distances,      \* self.ref_distances
    test_distances,     \* self.test_distances
    op,                 \* the last call: "init", "fit_reference", "compare_team"
    arg,                \* the file of the last call
    ret,                \* what the last call returned or raised
    repeated,           \* the last two calls were compare_team on the same file
    sdA, sdB,           \* the two game states handed to _state_distance
    sdAB, sdBA          \* the results of _state_distance(sdA, sdB) and (sdB, sdA)

tcvars == <<epsilon, ref_trajectories, ref_distances, test_distances, op, arg, ret,
            repeated>>

sdvars == <<sdA, sdB, sdAB, sdBA>>

vars == <<epsilon, ref_trajectories, ref_distances, test_distances, op, arg, ret,
          repeated, sdA, sdB, sdAB, sdBA>>

NotCalled == [outcome |-> "none", value |-> 0, inf |-> FALSE]

Returned(outcome, eps, alerts) == [outcome |-> outcome, epsilon |-> eps, alerts |-> alerts]

\* ------------------------------------------------ comparator specification
\* lines 11-16
Init ==
    /\ epsilon = None
    /\ ref_trajectories = <<>>
    /\ ref_distances = <<>>
    /\ test_distances = <<>>
    /\ op = "init"
    /\ arg = <<>>
    /\ ret = Returned("ok", None, <<>>)
    /\ repeated = FALSE
    /\ sdA = GameState(<<>>)
    /\ sdB = GameState(<<>>)
    /\ sdAB = NotCalled
    /\ sdBA = NotCalled

\* lines 88-95, pw being what the loop over the pairs leaves
fit_distances(pw) ==
    /\ ref_distances' = pw.distances
    /\ IF pw.outcome # "ok"
       THEN /\ ret' = Returned(pw.outcome, None, <<>>)
            /\ UNCHANGED epsilon
       ELSE /\ epsilon' = <<fit_epsilon(pw.distances)>>
            /\ ret' = Returned("ok", epsilon', <<>>)

\* lines 82-95, loaded being the result of _load_team_data
fit_loaded(loaded) ==
    IF loaded.outcome # "ok"
    THEN /\ ret' = Returned(loaded.outcome, None, <<>>)
         /\ UNCHANGED <<epsilon, ref_trajectories, ref_distances>>
    ELSE IF loaded.value = <<>>
    THEN /\ ref_trajectories' = <<>>
         /\ ret' = Returned("IndexError", None, <<>>)
         /\ UNCHANGED <<epsilon, ref_distances>>
    ELSE /\ ref_trajectories' = pad(loaded.value)
         /\ fit_distances(pairwise(pad(loaded.value)))

\* lines 80-95
fit_reference(ref_file) ==
    /\ op' = "fit_reference"
    /\ arg' = ref_file
    /\ repeated' = FALSE
    /\ fit_loaded(load_team_data(ref_file))
    /\ UNCHANGED <<test_distances, sdvars>>

\* a compare_team that does not reset self.test_distances
compare_result_accumulate(r) ==
    /\ test_distances' = test_distances \o r.test_distances
    /\ ret' = Returned(r.outcome, None, IF r.outcome = "ok" THEN r.alerts ELSE <<>>)

\* lines 100-111, r being what the loop over the test trajectories leaves
compare_result(r) ==
    /\ test_distances' = r.test_distances
    /\ ret' = Returned(r.outcome, None, IF r.outcome = "ok" THEN r.alerts ELSE <<>>)

\* lines 99-111, loaded being the result of _load_team_data
compare_loaded(loaded) ==
    IF loaded.outcome # "ok"
    THEN /\ ret' = Returned(loaded.outcome, None, <<>>)
         /\ UNCHANGED test_distances
    ELSE compare_result(compare_loop(loaded.value, ref_trajectories, epsilon, 1, <<>>, <<>>))

\* lines 97-111
compare_team(test_file) ==
    /\ op' = "compare_team"
    /\ arg' = test_file
    /\ repeated' = (op = "compare_team" /\ arg = test_file)
    /\ compare_loaded(load_team_data(test_file))
    /\ UNCHANGED <<epsilon, ref_trajectories, ref_distances, sdvars>>

Next ==
    \/ \E f \in Files : fit_reference(f)
    \/ \E f \in Files : compare_team(f)

Spec == Init /\ [][Next]_vars

\* ------------------------------------------------- scenario specification
\* a fresh comparator fitted on reference files of four scenario trajectories
NextScenario == \E f \in ScenarioFiles : fit_reference(f)

SpecScenario == Init /\ [][NextScenario]_vars

\* ------------------------------------------ state-distance specification
InitSD ==
    /\ sdA \in GameStates
    /\ sdB \in GameStates
    /\ sdAB = NotCalled
    /\ sdBA = NotCalled
    /\ epsilon = None
    /\ ref_trajectories = <<>>
    /\ ref_distances = <<>>
    /\ test_distances = <<>>
    /\ op = "init"
    /\ arg = <<>>
    /\ ret = Returned("ok", None, <<>>)
    /\ repeated = FALSE

CallStateDistance ==
    /\ sdAB = NotCalled
    /\ sdAB' = state_distance(sdA, sdB)
    /\ sdBA' = state_distance(sdB, sdA)
    /\ UNCHANGED <<sdA, sdB, tcvars>>

NextSD == CallStateDistance

SpecSD == InitSD /\ [][NextSD]_vars

\* ------------------------------------------------------------------ claims
\* what _load_team_data made of the file of the last call
LastLoaded == load_team_data(arg)

CompareDone == op = "compare_team" /\ LastLoaded.outcome = "ok"

FitDone == op = "fit_reference" /\ ret.outcome = "ok"

\* the distance of loaded trajectory t to the r-th stored reference
RefDistance(t, r) == trajectory_distance(t, ref_trajectories[r])

\* C1: after a successful fit_reference, every distance compare_team records
\* is the least trajectory distance of its test trajectory to the stored
\* reference trajectories, and its alert flag is 1 exactly when that
\* distance is strictly greater than epsilon
C1_NearestReferenceAlert ==
    (CompareDone /\ epsilon # None) =>
        /\ Len(test_distances) <= Len(LastLoaded.value)
        /\ \A k \in 1..Len(test_distances) :
              /\ \A r \in 1..Len(ref_trajectories) :
                    /\ RefDistance(LastLoaded.value[k], r).outcome = "ok"
                    /\ test_distances[k] <= RefDistance(LastLoaded.value[k], r).value
              /\ \E r \in 1..Len(ref_trajectories) :
                    test_distances[k] = RefDistance(LastLoaded.value[k], r).value
        /\ ret.outcome = "ok" =>
              /\ Len(test_distances) = Len(LastLoaded.value)
              /\ Len(ret.alerts) = Len(LastLoaded.value)
              /\ \A k \in 1..Len(ret.alerts) :
                    /\ ret.alerts[k] \in {0, 1}
                    /\ ret.alerts[k] = 1 <=> PercentScale * test_distances[k] > epsilon[1]

\* a compare_team that alerts on one trajectory and not on another whose
\* distance is a positive epsilon exactly
C1_Witness ==
    /\ CompareDone
    /\ ret.outcome = "ok"
    /\ epsilon # None
    /\ epsilon[1] > 0
    /\ \E k \in 1..Len(ret.alerts) : ret.alerts[k] = 1
    /\ \E k \in 1..Len(ret.alerts) :
          ret.alerts[k] = 0 /\ PercentScale * test_distances[k] = epsilon[1]

\* C2: compare_team on a comparator without an epsilon raises
\* UnfitModelError, whatever the (well-formed) test file
C2_UnfitRaises ==
    (CompareDone /\ epsilon = None) => ret.outcome = "UnfitModelError"

\* C4: fit_reference pads only a loaded set of fewer than 2 trajectories (to
\* at least 4); n >= 2 loaded trajectories stay the reference set and give
\* n(n-1)/2 reference distances
C4_PadOnlyWhenShort ==
    FitDone =>
        /\ Len(LastLoaded.value) < 2 => Len(ref_trajectories) >= 4
        /\ Len(LastLoaded.value) >= 2 =>
              /\ ref_trajectories = LastLoaded.value
              /\ 2 * Len(ref_distances)
                 = Len(LastLoaded.value) * (Len(LastLoaded.value) - 1)

\* the distances of the unordered pairs of the loaded trajectories
LoadedPairDistances ==
    {trajectory_distance(LastLoaded.value[p[1]], LastLoaded.value[p[2]]).value :
        p \in {q \in (1..Len(LastLoaded.value)) \X (1..Len(LastLoaded.value)) : q[1] < q[2]}}

\* C5: fitted on 4 trajectories whose 6 pairwise distances are positive and
\* different, epsilon is strictly between 0 and the largest of them
C5_EpsilonBelowMax ==
    (FitDone /\ Len(LastLoaded.value) = 4 /\ Cardinality(LoadedPairDistances) = 6
       /\ 0 \notin LoadedPairDistances) =>
        /\ epsilon[1] > 0
        /\ epsilon[1] < PercentScale * SetMax(LoadedPairDistances)

\* C8: a test trajectory equal to a stored reference trajectory is recorded
\* with distance 0 and, when compare_team returns, flagged 0
C8_IdenticalNoAlert ==
    CompareDone =>
        \A k \in 1..Len(test_distances) :
            LastLoaded.value[k] \in Range(ref_trajectories) =>
                /\ test_distances[k] = 0
                /\ ret.outcome = "ok" => ret.alerts[k] = 0

\* compare_team returned, epsilon is 0 and a test trajectory is a reference
C8_Witness ==
    /\ CompareDone
    /\ ret.outcome = "ok"
    /\ epsilon = <<0>>
    /\ \E k \in 1..Len(test_distances) :
          /\ LastLoaded.value[k] \in Range(ref_trajectories)
          /\ test_distances[k] = 0
          /\ ret.alerts[k] = 0

\* C9: a compare_team call leaves epsilon, the reference trajectories and the
\* reference distances as they are; called again on the same file it returns
\* the same and records the same; when it returns, test_distances and the
\* alerts have one entry per test trajectory of this call, in input order
C9_CompareRepeatable ==
    [][op' = "compare_team" =>
        /\ epsilon' = epsilon
        /\ ref_trajectories' = ref_trajectories
        /\ ref_distances' = ref_distances
        /\ (op = "compare_team" /\ arg' = arg) =>
              (ret' = ret /\ test_distances' = test_distances)
        /\ ret'.outcome = "ok" =>
              /\ Len(test_distances') = Len(load_team_data(arg').value)
              /\ Len(ret'.alerts) = Len(load_team_data(arg').value)
              /\ \A k \in 1..Len(ret'.alerts) :
                    ret'.alerts[k] = 1 <=>
                        \A r \in 1..Len(ref_trajectories) :
                            PercentScale
                              * trajectory_distance(load_team_data(arg').value[k],
                                                    ref_trajectories[r]).value
                            > epsilon[1]]_vars

\* the same two-trajectory file compared twice in a row, with two different flags
C9_Witness ==
    /\ repeated
    /\ ret.outcome = "ok"
    /\ Len(ret.alerts) = 2
    /\ ret.alerts[1] # ret.alerts[2]
    /\ Len(test_distances) = 2

\* C10: whenever epsilon is set, ref_distances is the pairwise distances of
\* the stored reference trajectories and epsilon is their percentile
C10_EpsilonMatchesReferences ==
    epsilon # None =>
        /\ pairwise(ref_trajectories).outcome = "ok"
        /\ ref_distances = pairwise(ref_trajectories).distances
        /\ ref_distances # <<>>
        /\ epsilon = <<fit_epsilon(ref_distances)>>

\* the one-to-one matchings of n agents
Matchings(n) == {p \in [1..n -> 1..n] : \A i, j \in 1..n : i # j => p[i] # p[j]}

\* position distance + orientation distance + held-object mismatch (0 when
\* both hold nothing or both hold an object of the same name, else 1)
PairCost(a, b) ==
    euclidean(a.position, b.position) + euclidean(a.orientation, b.orientation)
    + (IF a.held_object = b.held_object THEN 0 ELSE 1)

MatchingCost(A, B, p) ==
    SeqSum([i \in 1..Len(A.players) |-> PairCost(A.players[i], B.players[p[i]])])

Reorder(A, p) == GameState([i \in 1..Len(A.players) |-> A.players[p[i]]])

SDCalled == sdAB # NotCalled

\* C3: on states of different agent counts the state distance raises
\* AgentCountMismatchError, in both argument orders
C3_MismatchRaises ==
    (SDCalled /\ Len(sdA.players) # Len(sdB.players)) =>
        /\ sdAB.outcome = "AgentCountMismatchError"
        /\ sdBA.outcome = "AgentCountMismatchError"

\* C6: distance(A, B) and distance(B, A) end the same way with the same value
C6_Symmetric == SDCalled => sdAB = sdBA

\* C7: on states of the same agent count the state distance is a number, it
\* is the same for every reordering of A's agents, and it is the least summed
\* per-agent cost over all one-to-one matchings of the agents
C7_PermutationInvariant ==
    (SDCalled /\ Len(sdA.players) = Len(sdB.players)) =>
        /\ sdAB.outcome = "ok"
        /\ ~sdAB.inf
        /\ \A p \in Matchings(Len(sdA.players)) :
              /\ state_distance(Reorder(sdA, p), sdB) = sdAB
              /\ MatchingCost(sdA, sdB, p) >= sdAB.value
        /\ \E p \in Matchings(Len(sdA.players)) : MatchingCost(sdA, sdB, p) = sdAB.value

\* two different agents on each side, holding differently named objects,
\* matched best by the swap and not by the identity
C7_Witness ==
    /\ SDCalled
    /\ Len(sdA.players) = 2
    /\ Len(sdB.players) = 2
    /\ sdA.players[1] # sdA.players[2]
    /\ \E i, j \in 1..2 :
          /\ sdA.players[i].held_object # None
          /\ sdB.players[j].held_object # None
          /\ sdA.players[i].held_object # sdB.players[j].held_object
    /\ sdAB.outcome = "ok"
    /\ sdAB.value > 0
    /\ MatchingCost(sdA, sdB, <<1, 2>>) > sdAB.value
    /\ MatchingCost(sdA, sdB, <<2, 1>>) = sdAB.value

=============================================================================
